---- MODULE Spec2Model ----
(***************************************************************************)
(* Dutch-auction settlement contract (src/src/lib.rs).                     *)
(*                                                                         *)
(* The contract instance owns a key/value store (DataKey -> value), reads  *)
(* the ledger timestamp, and settles a purchase through two token          *)
(* contracts: the payment asset (xfer_from buyer -> admin) and the prize   *)
(* asset (xfer contract -> buyer).  Every entry point runs as one host     *)
(* transaction: a panic anywhere in the call discards all of its writes.   *)
(***************************************************************************)
EXTENDS Integers, FiniteSets, Sequences, TLC

VARIABLES
    data,   \* the instance's storage: a function from the DataKeys present to their values
    now,    \* the ledger timestamp (e.ledger().timestamp())
    bal,    \* token balances: bal[token][identifier]
    allow,  \* token allowances granted to the auction contract: allow[token][identifier]
    res     \* outcome of the call just executed: [op, status, val, from]

vars == <<data, now, bal, allow, res>>

(***************************************************************************)
(* Bounds of the model.                                                    *)
(***************************************************************************)
MaxTime == 4     \* ledger timestamps range over 0..MaxTime
MaxPrice == 2    \* the largest starting price, minimum price and approved amount
MaxSlope == 2    \* the largest slope: seconds per unit of price decay
Funds == 3       \* payment tokens minted to the buyer user2
Stock == 2       \* prize tokens deposited in the auction contract

(***************************************************************************)
(* Identifiers and token contracts (src/src/test.rs).                      *)
(***************************************************************************)
\* user1 (auction admin in the test), user2 (buyer), and the auction contract itself
Identifier == {"user1", "user2", "auction"}

\* Identifier::Contract(e.get_current_contract())
get_contract_id == "auction"

\* registered token contracts: the payment token and the prize token of the test
RegisteredTokens == {"usdc", "test"}

\* a BytesN<32> that names no registered token contract
Unregistered == "unreg"

ContractIds == RegisteredTokens \cup {Unregistered}

(***************************************************************************)
(* DataKey: the closed set of storage keys.                                *)
(***************************************************************************)
Admin == <<"Admin">>
TokenId == <<"TokenId">>
ItemId == <<"ItemId">>
Price == <<"Price">>
MinPrice == <<"MinPrice">>
Timestamp == <<"Timestamp">>
Slope == <<"Slope">>
Nonce(id) == <<"Nonce", id>>

\* e.data().has(key)
Has(d, key) == key \in DOMAIN d

\* e.data().set(key, value)
Set(d, key, value) ==
    [k \in (DOMAIN d) \cup {key} |-> IF k = key THEN value ELSE d[k]]

(***************************************************************************)
(* Outcomes of a call or of a helper: a value, or the panic that aborts    *)
(* the invocation.                                                         *)
(***************************************************************************)
Ok(v) == [status |-> "Ok", val |-> v]
Trap(why) == [status |-> why, val |-> 0]

\* BigInt division truncates toward zero; division by zero panics (guarded by the caller)
TruncDiv(a, b) ==
    LET abs(x) == IF x < 0 THEN -x ELSE x
        q == abs(a) \div abs(b)
    IN  IF (a < 0) = (b < 0) THEN q ELSE -q

(***************************************************************************)
(* Typed accessors.                                                        *)
(***************************************************************************)
\* unwrap_or(Ok(zero)): a missing key reads as zero
get_minimum_price(d) == IF Has(d, MinPrice) THEN d[MinPrice] ELSE 0

get_starting_price(d) == IF Has(d, Price) THEN d[Price] ELSE 0

\* unwrap() on a missing key panics
get_slope(d) == IF Has(d, Slope) THEN Ok(d[Slope]) ELSE Trap("Uninitialized")

get_starting_time(d) == IF Has(d, Timestamp) THEN Ok(d[Timestamp]) ELSE Trap("Uninitialized")

get_token_id(d) == IF Has(d, TokenId) THEN Ok(d[TokenId]) ELSE Trap("Uninitialized")

get_item_id(d) == IF Has(d, ItemId) THEN Ok(d[ItemId]) ELSE Trap("Uninitialized")

has_administrator(d) == Has(d, Admin)

\* get_unchecked(key).unwrap() panics on a missing key
read_administrator(d) == IF Has(d, Admin) THEN Ok(d[Admin]) ELSE Trap("Uninitialized")

\* unwrap_or_else(zero): an identifier with no stored nonce reads as zero
read_nonce(d, id) == IF Has(d, Nonce(id)) THEN d[Nonce(id)] ELSE 0

(***************************************************************************)
(* Price oracle.                                                           *)
(***************************************************************************)
\* the decayed amount is added instead of subtracted
compute_price_rising(d, current_time) ==
    LET starting_time == get_starting_time(d)
        rev_slope == get_slope(d)
    IN  IF starting_time.status # "Ok" THEN starting_time
        ELSE IF current_time < starting_time.val THEN Trap("Overflow")
        ELSE IF rev_slope.status # "Ok" THEN rev_slope
        ELSE IF rev_slope.val = 0 THEN Trap("DivisionByZero")
        ELSE LET computed == get_starting_price(d)
                                + TruncDiv(current_time - starting_time.val, rev_slope.val)
             IN  IF computed < get_minimum_price(d) THEN Ok(get_minimum_price(d))
                 ELSE Ok(computed)

\* the computed price is returned without the clamp at the minimum price
compute_price_unclamped(d, current_time) ==
    LET starting_time == get_starting_time(d)
        rev_slope == get_slope(d)
    IN  IF starting_time.status # "Ok" THEN starting_time
        ELSE IF current_time < starting_time.val THEN Trap("Overflow")
        ELSE IF rev_slope.status # "Ok" THEN rev_slope
        ELSE IF rev_slope.val = 0 THEN Trap("DivisionByZero")
        ELSE Ok(get_starting_price(d)
                    - TruncDiv(current_time - starting_time.val, rev_slope.val))

\* the elapsed time is divided rounding up instead of down
compute_price_ceil(d, current_time) ==
    LET starting_time == get_starting_time(d)
        rev_slope == get_slope(d)
    IN  IF starting_time.status # "Ok" THEN starting_time
        ELSE IF current_time < starting_time.val THEN Trap("Overflow")
        ELSE IF rev_slope.status # "Ok" THEN rev_slope
        ELSE IF rev_slope.val = 0 THEN Trap("DivisionByZero")
        ELSE LET elapsed_time == current_time - starting_time.val
                 steps == IF rev_slope.val > 0
                          THEN TruncDiv(elapsed_time + rev_slope.val - 1, rev_slope.val)
                          ELSE TruncDiv(elapsed_time, rev_slope.val)
                 computed == get_starting_price(d) - steps
             IN  IF computed < get_minimum_price(d) THEN Ok(get_minimum_price(d))
                 ELSE Ok(computed)

\* the start time and the slope read with a default, like the two prices
compute_price_defaulting(d, current_time) ==
    LET starting_time == IF Has(d, Timestamp) THEN d[Timestamp] ELSE 0
        rev_slope == IF Has(d, Slope) THEN d[Slope] ELSE 1
    IN  IF current_time < starting_time THEN Trap("Overflow")
        ELSE IF rev_slope = 0 THEN Trap("DivisionByZero")
        ELSE LET computed == get_starting_price(d)
                                - TruncDiv(current_time - starting_time, rev_slope)
             IN  IF computed < get_minimum_price(d) THEN Ok(get_minimum_price(d))
                 ELSE Ok(computed)

compute_price(d, current_time) ==
    LET starting_price == get_starting_price(d)
        minimum_price == get_minimum_price(d)
        starting_time == get_starting_time(d)
        rev_slope == get_slope(d)
    IN  IF starting_time.status # "Ok" THEN starting_time
        ELSE IF current_time < starting_time.val THEN Trap("Overflow")
        ELSE IF rev_slope.status # "Ok" THEN rev_slope
        ELSE IF rev_slope.val = 0 THEN Trap("DivisionByZero")
        ELSE LET elapsed_time == current_time - starting_time.val
                 computed == starting_price - TruncDiv(elapsed_time, rev_slope.val)
             IN  IF computed < minimum_price THEN Ok(minimum_price) ELSE Ok(computed)

(***************************************************************************)
(* Token interface consumed by the contract (token::Client).  Each call    *)
(* returns the token's ledger after the call, or the rejection that aborts *)
(* the invocation.                                                         *)
(***************************************************************************)
Rejected(b, a) == [status |-> "TransferRejected", bal |-> b, allow |-> a]

\* move amount from one balance to another: spend_balance, then receive_balance
Move(b, tok, from, to, amount) ==
    LET spent == [b EXCEPT ![tok][from] = @ - amount]
    IN  [spent EXCEPT ![tok][to] = @ + amount]

\* client.balance(id)
token_balance(b, tok, id) ==
    IF tok \notin RegisteredTokens THEN Trap("TransferRejected") ELSE Ok(b[tok][id])

\* client.xfer_from(Invoker, nonce, from, to, amount): the invoking contract spends
\* from's allowance
token_xfer_from(b, a, tok, from, to, amount) ==
    IF tok \notin RegisteredTokens THEN Rejected(b, a)
    ELSE IF amount < 0 THEN Rejected(b, a)
    ELSE IF a[tok][from] < amount THEN Rejected(b, a)
    ELSE IF b[tok][from] < amount THEN Rejected(b, a)
    ELSE [status |-> "Ok",
          bal |-> Move(b, tok, from, to, amount),
          allow |-> [a EXCEPT ![tok][from] = @ - amount]]

\* client.xfer(Invoker, nonce, to, amount): the invoking contract spends its own balance
token_xfer(b, a, tok, to, amount) ==
    IF tok \notin RegisteredTokens THEN Rejected(b, a)
    ELSE IF amount < 0 THEN Rejected(b, a)
    ELSE IF b[tok][get_contract_id] < amount THEN Rejected(b, a)
    ELSE [status |-> "Ok",
          bal |-> Move(b, tok, get_contract_id, to, amount),
          allow |-> a]

(***************************************************************************)
(* Settlement engine.                                                      *)
(***************************************************************************)
\* the payment is sent to the contract instead of the administrator
transfer_to_contract(d, b, a, from, amount) ==
    LET token_id == get_token_id(d)
    IN  IF token_id.status # "Ok" THEN [status |-> token_id.status, bal |-> b, allow |-> a]
        ELSE token_xfer_from(b, a, token_id.val, from, get_contract_id, amount)

transfer_to_admin(d, b, a, from, amount) ==
    LET token_id == get_token_id(d)
        admin_id == read_administrator(d)
    IN  IF token_id.status # "Ok" THEN [status |-> token_id.status, bal |-> b, allow |-> a]
        ELSE IF admin_id.status # "Ok" THEN [status |-> admin_id.status, bal |-> b, allow |-> a]
        ELSE token_xfer_from(b, a, token_id.val, from, admin_id.val, amount)

\* empty_contract that refuses to run once the contract holds no prize
empty_contract_closed(d, b, a, to) ==
    LET item_id == get_item_id(d)
    IN  IF item_id.status # "Ok" THEN [status |-> item_id.status, bal |-> b, allow |-> a]
        ELSE LET amount == token_balance(b, item_id.val, get_contract_id)
             IN  IF amount.status # "Ok" THEN Rejected(b, a)
                 ELSE IF amount.val = 0 THEN Rejected(b, a)
                 ELSE token_xfer(b, a, item_id.val, to, amount.val)

empty_contract(d, b, a, to) ==
    LET item_id == get_item_id(d)
    IN  IF item_id.status # "Ok" THEN [status |-> item_id.status, bal |-> b, allow |-> a]
        ELSE LET amount == token_balance(b, item_id.val, get_contract_id)
             IN  IF amount.status # "Ok" THEN Rejected(b, a)
                 ELSE token_xfer(b, a, item_id.val, to, amount.val)

(***************************************************************************)
(* Entry points.  Each returns the outcome of the whole invocation: the    *)
(* status, the returned value, and the state the host commits (the state   *)
(* before the call when the invocation panicked).                          *)
(***************************************************************************)
\* initialize without the has_administrator guard
initialize_unguarded(d, time, admin, token_id, item_id, starting_price, minimum_price, slope) ==
    [status |-> "Ok",
     data |-> Set(Set(Set(Set(Set(Set(Set(d, Admin, admin), TokenId, token_id),
                  ItemId, item_id), Price, starting_price), Timestamp, time),
                  MinPrice, minimum_price), Slope, slope)]

\* initialize that stores timestamp zero instead of the ledger time
initialize_epoch_time(d, time, admin, token_id, item_id, starting_price, minimum_price, slope) ==
    IF has_administrator(d)
    THEN [status |-> "AlreadyInitialized", data |-> d]
    ELSE [status |-> "Ok",
          data |-> Set(Set(Set(Set(Set(Set(Set(d, Admin, admin), TokenId, token_id),
                       ItemId, item_id), Price, starting_price), Timestamp, 0),
                       MinPrice, minimum_price), Slope, slope)]

\* initialize that never writes the slope
initialize_without_slope(d, time, admin, token_id, item_id, starting_price, minimum_price, slope) ==
    IF has_administrator(d)
    THEN [status |-> "AlreadyInitialized", data |-> d]
    ELSE [status |-> "Ok",
          data |-> Set(Set(Set(Set(Set(Set(d, Admin, admin), TokenId, token_id),
                       ItemId, item_id), Price, starting_price), Timestamp, time),
                       MinPrice, minimum_price)]

initialize(d, time, admin, token_id, item_id, starting_price, minimum_price, slope) ==
    IF has_administrator(d)
    THEN [status |-> "AlreadyInitialized", data |-> d]
    ELSE LET d1 == Set(d, Admin, admin)
             d2 == Set(d1, TokenId, token_id)
             d3 == Set(d2, ItemId, item_id)
             d4 == Set(d3, Price, starting_price)
             d5 == Set(d4, Timestamp, time)
             d6 == Set(d5, MinPrice, minimum_price)
             d7 == Set(d6, Slope, slope)
         IN  [status |-> "Ok", data |-> d7]

\* nonce that unwraps the stored nonce without the zero default
nonce_unwrap(d) ==
    LET admin == read_administrator(d)
    IN  IF admin.status # "Ok" THEN admin
        ELSE IF Has(d, Nonce(admin.val)) THEN Ok(d[Nonce(admin.val)])
        ELSE Trap("Uninitialized")

nonce(d) ==
    LET admin == read_administrator(d)
    IN  IF admin.status # "Ok" THEN admin ELSE Ok(read_nonce(d, admin.val))

\* buy whose payment leg stays applied when the prize leg is rejected
buy_no_rollback(d, time, b, a, from) ==
    LET price == compute_price(d, time)
        aborted(why) == [status |-> why, val |-> 0, bal |-> b, allow |-> a]
    IN  IF price.status # "Ok" THEN aborted(price.status)
        ELSE LET paid == transfer_to_admin(d, b, a, from, price.val)
             IN  IF paid.status # "Ok" THEN aborted(paid.status)
                 ELSE LET emptied == empty_contract(d, paid.bal, paid.allow, from)
                      IN  IF emptied.status # "Ok"
                          THEN [status |-> emptied.status, val |-> 0,
                                bal |-> paid.bal, allow |-> paid.allow]
                          ELSE [status |-> "Ok", val |-> price.val,
                                bal |-> emptied.bal, allow |-> emptied.allow]

\* buy that ignores a rejected payment leg and releases the prize anyway
buy_ignore_payment(d, time, b, a, from) ==
    LET price == compute_price(d, time)
        aborted(why) == [status |-> why, val |-> 0, bal |-> b, allow |-> a]
    IN  IF price.status # "Ok" THEN aborted(price.status)
        ELSE LET paid == transfer_to_admin(d, b, a, from, price.val)
                 emptied == empty_contract(d, paid.bal, paid.allow, from)
             IN  IF emptied.status # "Ok" THEN aborted(emptied.status)
                 ELSE [status |-> "Ok", val |-> price.val,
                       bal |-> emptied.bal, allow |-> emptied.allow]

buy(d, time, b, a, from) ==
    LET price == compute_price(d, time)
        aborted(why) == [status |-> why, val |-> 0, bal |-> b, allow |-> a]
    IN  IF price.status # "Ok" THEN aborted(price.status)
        ELSE LET paid == transfer_to_admin(d, b, a, from, price.val)
             IN  IF paid.status # "Ok" THEN aborted(paid.status)
                 ELSE LET emptied == empty_contract(d, paid.bal, paid.allow, from)
                      IN  IF emptied.status # "Ok" THEN aborted(emptied.status)
                          ELSE [status |-> "Ok", val |-> price.val,
                                bal |-> emptied.bal, allow |-> emptied.allow]

get_price(d, time) == compute_price(d, time)

(***************************************************************************)
(* Arguments the callers draw from.                                        *)
(***************************************************************************)
\* starting below, at and above the minimum, and negative values of both
StartingPrices == {-1, 1, MaxPrice}
MinimumPrices == {-1, 0, MaxPrice}
\* a negative slope, a zero slope, and decay by one unit every 1 or MaxSlope seconds
Slopes == {-MaxSlope, 0, 1, MaxSlope}
Amounts == 0 .. MaxPrice

\* the identities and asset ids vary, with a decaying price
SettlementArgs ==
    [admin : Identifier, token_id : ContractIds, item_id : ContractIds,
     starting_price : {MaxPrice}, minimum_price : {0}, slope : {1}]

\* the prices and the slope vary, with the identities and assets of the test
PricingArgs ==
    [admin : {"user1"}, token_id : {"usdc"}, item_id : {"test"},
     starting_price : StartingPrices, minimum_price : MinimumPrices, slope : Slopes]

InitializeArgs == SettlementArgs \cup PricingArgs

(***************************************************************************)
(* State machine.                                                          *)
(***************************************************************************)
Result(op, status, val, from) == [op |-> op, status |-> status, val |-> val, from |-> from]

\* a registered instance with empty storage; user2 holds the payment funds and the
\* contract holds the prize stock
Init ==
    /\ data = << >>
    /\ now = 0
    /\ bal = [tok \in RegisteredTokens |-> [id \in Identifier |->
                IF tok = "usdc" /\ id = "user2" THEN Funds
                ELSE IF tok = "test" /\ id = get_contract_id THEN Stock
                ELSE 0]]
    /\ allow = [tok \in RegisteredTokens |-> [id \in Identifier |-> 0]]
    /\ res = Result("deploy", "Ok", 0, "none")

Initialize(args) ==
    LET out == initialize(data, now, args.admin, args.token_id, args.item_id,
                          args.starting_price, args.minimum_price, args.slope)
    IN  /\ data' = out.data
        /\ res' = Result("initialize", out.status, 0, "none")
        /\ UNCHANGED <<now, bal, allow>>

NonceCall ==
    LET out == nonce(data)
    IN  /\ res' = Result("nonce", out.status, out.val, "none")
        /\ UNCHANGED <<data, now, bal, allow>>

\* buy that consumes the buyer's nonce on success
BuyConsumingNonce(from) ==
    LET out == buy(data, now, bal, allow, from)
    IN  /\ bal' = out.bal
        /\ allow' = out.allow
        /\ res' = Result("buy", out.status, out.val, from)
        /\ data' = IF out.status = "Ok"
                   THEN Set(data, Nonce(from), read_nonce(data, from) + 1)
                   ELSE data
        /\ UNCHANGED now

Buy(from) ==
    LET out == buy(data, now, bal, allow, from)
    IN  /\ bal' = out.bal
        /\ allow' = out.allow
        /\ res' = Result("buy", out.status, out.val, from)
        /\ UNCHANGED <<data, now>>

\* get_price that stores the price it computed as the new starting price
GetPriceStoring ==
    LET out == get_price(data, now)
    IN  /\ res' = Result("get_price", out.status, out.val, "none")
        /\ data' = IF out.status = "Ok" THEN Set(data, Price, out.val) ELSE data
        /\ UNCHANGED <<now, bal, allow>>

GetPrice ==
    LET out == get_price(data, now)
    IN  /\ res' = Result("get_price", out.status, out.val, "none")
        /\ UNCHANGED <<data, now, bal, allow>>

\* the host advances the ledger timestamp
Tick ==
    /\ now < MaxTime
    /\ now' = now + 1
    /\ res' = Result("tick", "Ok", 0, "none")
    /\ UNCHANGED <<data, bal, allow>>

\* the buyer authorizes the auction contract on the payment token (token.approve)
Approve(tok, from, amount) ==
    /\ allow' = [allow EXCEPT ![tok][from] = amount]
    /\ res' = Result("approve", "Ok", amount, from)
    /\ UNCHANGED <<data, now, bal>>

Next ==
    \/ \E args \in InitializeArgs : Initialize(args)
    \/ NonceCall
    \/ \E from \in Identifier : Buy(from)
    \/ GetPrice
    \/ Tick
    \/ \E amount \in Amounts : Approve("usdc", "user2", amount)

Spec == Init /\ [][Next]_vars

(***************************************************************************)
(* Properties.                                                             *)
(***************************************************************************)
Initialized == has_administrator(data)

\* the step just taken is a call of op (every action records its own op in res)
Called(op) == res'.op = op

Succeeded(op) == res'.op = op /\ res'.status = "Ok"

\* the settlement of a successful buy, as the balances before and after the call
Settled(from) ==
    LET price == get_price(data, now).val
        admin == data[Admin]
        token == data[TokenId]
        item == data[ItemId]
        stock == bal[item][get_contract_id]
    IN  /\ bal'[token][from] = bal[token][from] - price
        /\ bal'[token][admin] = bal[token][admin] + price
        /\ bal'[item][get_contract_id] = 0
        /\ bal'[item][from] = bal[item][from] + stock

\* C1 as stated: every successful buy, by any buyer under any configuration, debits
\* the buyer by the price, credits the admin by the price, empties the contract's
\* prize balance and credits the buyer with the contract's pre-call prize balance.
C1_AnyBuyer == [][Succeeded("buy") => Settled(res'.from)]_vars

\* C1 amended: a successful buy by a buyer that is neither the admin nor the contract
\* itself, with a prize asset distinct from the payment asset, debits the buyer by
\* the price get_price returns at call time, credits the admin by the same amount,
\* empties the contract's prize balance and credits the buyer with the contract's
\* pre-call prize balance.
C1_Settlement ==
    [][(/\ Succeeded("buy")
        /\ res'.from # data[Admin]
        /\ res'.from # get_contract_id
        /\ data[TokenId] # data[ItemId]) => Settled(res'.from)]_vars

\* a buy at a positive price has settled between distinct buyer, admin and contract
C1_Witness ==
    /\ res.op = "buy" /\ res.status = "Ok" /\ res.val > 0
    /\ res.from = "user2" /\ data[Admin] = "user1"
    /\ data[TokenId] = "usdc" /\ data[ItemId] = "test"
    /\ bal["usdc"]["user1"] = res.val
    /\ bal["usdc"]["user2"] = Funds - res.val
    /\ bal["test"]["user2"] = Stock

\* C2: a buy call applies both legs or neither: a failed buy leaves balances and
\* allowances as they were, and a successful buy has consumed the buyer's allowance
\* by the price (payment leg) and left the contract no prize balance (prize leg, run
\* on the balances the payment leg produced).
C2_Atomic ==
    [][Called("buy") =>
        IF res'.status = "Ok"
        THEN /\ allow'[data[TokenId]][res'.from]
                    = allow[data[TokenId]][res'.from] - get_price(data, now).val
             /\ \/ res'.from = get_contract_id
                \/ bal'[data[ItemId]][get_contract_id] = 0
        ELSE bal' = bal /\ allow' = allow]_vars

\* a buy was rejected by the prize leg although the buyer's allowance and balance
\* covered the positive price, and the payment is not applied
C2_Witness ==
    /\ res.op = "buy" /\ res.status = "TransferRejected" /\ res.from = "user2"
    /\ Initialized /\ data[TokenId] = "usdc" /\ data[ItemId] = Unregistered
    /\ get_price(data, now).status = "Ok" /\ get_price(data, now).val > 0
    /\ allow["usdc"]["user2"] >= get_price(data, now).val
    /\ bal["usdc"]["user2"] = Funds

\* C3: a buy whose buyer has authorized the contract for less than the current price
\* fails and leaves every balance (and allowance) unchanged.
C3_Unauthorized ==
    [][(/\ Called("buy")
        /\ get_price(data, now).status = "Ok"
        /\ get_token_id(data).val \in RegisteredTokens
        /\ allow[data[TokenId]][res'.from] < get_price(data, now).val)
       => res'.status # "Ok" /\ bal' = bal /\ allow' = allow]_vars

\* a buy was rejected for an allowance of 1 below a price the buyer's balance covers
C3_Witness ==
    /\ res.op = "buy" /\ res.status = "TransferRejected" /\ res.from = "user2"
    /\ Initialized /\ data[TokenId] = "usdc" /\ data[ItemId] = "test"
    /\ get_price(data, now).status = "Ok"
    /\ allow["usdc"]["user2"] = 1
    /\ get_price(data, now).val = 2
    /\ bal["usdc"]["user2"] = Funds /\ bal["test"][get_contract_id] = Stock

\* C4: initialize on an initialized instance fails with AlreadyInitialized, whatever
\* its arguments and the ledger time, and leaves the stored configuration unchanged.
C4_InitializeOnce ==
    [][(Called("initialize") /\ Initialized)
       => res'.status = "AlreadyInitialized" /\ data' = data]_vars

\* a second initialize was refused at a later ledger time than the first
C4_Witness ==
    /\ res.op = "initialize" /\ res.status = "AlreadyInitialized"
    /\ Initialized /\ now > data[Timestamp]

\* the ledger times at or after the stored start time that the model reaches
TimesFromStart == data[Timestamp] .. MaxTime

Max(x, y) == IF x < y THEN y ELSE x

\* C5 as stated: under every configuration initialize accepts, the price at a later
\* time is at most the price at an earlier time (wherever both prices exist).
C5_AnyConfiguration ==
    Initialized =>
        \A t1, t2 \in TimesFromStart :
            (/\ t1 < t2
             /\ get_price(data, t1).status = "Ok"
             /\ get_price(data, t2).status = "Ok")
            => get_price(data, t2).val <= get_price(data, t1).val

\* C5 amended: under every configuration with a slope (decay rate) greater than
\* zero, for all times t1 < t2 at or after start_time the price exists at both times
\* and the price at t2 is at most the price at t1.
C5_Monotonic ==
    (Initialized /\ get_slope(data).val > 0) =>
        \A t1, t2 \in TimesFromStart :
            t1 < t2 =>
                /\ get_price(data, t1).status = "Ok"
                /\ get_price(data, t2).status = "Ok"
                /\ get_price(data, t2).val <= get_price(data, t1).val

\* get_price returned a price below the starting price, and above the minimum, after
\* time has passed under a positive slope
C5_Witness ==
    /\ res.op = "get_price" /\ res.status = "Ok" /\ Initialized
    /\ data[Slope] > 0 /\ now > data[Timestamp]
    /\ res.val < data[Price] /\ res.val > data[MinPrice]

\* C6: at every time t >= start_time the price compute_price returns, and so every
\* price get_price returned or buy charged, is at least minimum_price.
C6_Floor ==
    /\ Initialized =>
          \A t \in TimesFromStart :
              get_price(data, t).status = "Ok"
                  => get_price(data, t).val >= get_minimum_price(data)
    /\ (res.op \in {"get_price", "buy"} /\ res.status = "Ok")
          => res.val >= get_minimum_price(data)

\* get_price returned the minimum price when the decayed price had fallen below it
C6_Witness ==
    /\ res.op = "get_price" /\ res.status = "Ok" /\ Initialized
    /\ data[Slope] > 0 /\ data[Price] > data[MinPrice]
    /\ data[Price] - TruncDiv(now - data[Timestamp], data[Slope]) < data[MinPrice]
    /\ res.val = data[MinPrice]

\* C7 as stated: under every configuration initialize accepts, get_price called in
\* the ledger second of the successful initialize returns starting_price.  (A state
\* whose last call is a successful initialize still has the ledger time of that call.)
C7_AnyConfiguration ==
    [][(res.op = "initialize" /\ res.status = "Ok" /\ Called("get_price"))
       => res'.status = "Ok" /\ res'.val = get_starting_price(data)]_vars

\* C7 amended: under every configuration with minimum_price <= starting_price and a
\* nonzero slope, get_price called in the ledger second of the successful initialize
\* returns starting_price.
C7_StartingPrice ==
    [][(/\ res.op = "initialize" /\ res.status = "Ok" /\ Called("get_price")
        /\ get_minimum_price(data) <= get_starting_price(data)
        /\ get_slope(data).val # 0)
       => res'.status = "Ok" /\ res'.val = get_starting_price(data)]_vars

\* get_price returned the starting price, above the minimum, at the start time of an
\* auction initialized after the ledger had advanced
C7_Witness ==
    /\ res.op = "get_price" /\ res.status = "Ok" /\ Initialized
    /\ now = data[Timestamp] /\ now > 0
    /\ data[MinPrice] < data[Price]
    /\ res.val = data[Price]

\* the configuration of the test: starting price 5, minimum price 1, slope 900
TestData == initialize(<< >>, 1666359075, "user1", "usdc", "test", 5, 1, 900).data

\* floor(a / b) for b # 0
FloorDiv(a, b) == IF b > 0 THEN a \div b ELSE (-a) \div (-b)

\* C8 as stated: at every time t >= start_time the price (where one is returned) is
\* max(starting_price - floor((t - start_time) / decay_rate), minimum_price).
C8_AnyDecayRate ==
    Initialized =>
        \A t \in TimesFromStart :
            get_price(data, t).status = "Ok"
                => get_price(data, t).val
                      = Max(data[Price] - FloorDiv(t - data[Timestamp], data[Slope]),
                            data[MinPrice])

\* C8 amended: with a decay rate (slope) greater than zero, at every time
\* t >= start_time the price is
\* max(starting_price - floor((t - start_time) / slope), minimum_price), so it stays
\* the same between multiples of slope seconds; starting price 5, minimum price 1 and
\* slope 900 give price 3 at start_time + 1800.
C8_Staircase ==
    /\ compute_price(TestData, 1666359075 + 1800) = Ok(3)
    /\ (Initialized /\ get_slope(data).val > 0) =>
          \A t \in TimesFromStart :
              LET elapsed == t - data[Timestamp]
              IN  /\ get_price(data, t)
                        = Ok(Max(data[Price] - FloorDiv(elapsed, data[Slope]),
                                 data[MinPrice]))
                  /\ elapsed % data[Slope] # 0
                        => get_price(data, t) = get_price(data, t - 1)
    /\ (res.op = "get_price" /\ res.status = "Ok" /\ get_slope(data).val > 0)
          => res.val = Max(data[Price] - FloorDiv(now - data[Timestamp], data[Slope]),
                           data[MinPrice])

\* get_price returned starting_price - 1 one second after the first whole step of
\* MaxSlope seconds: one step, not a fraction more
C8_Witness ==
    /\ res.op = "get_price" /\ res.status = "Ok" /\ Initialized
    /\ data[Slope] = MaxSlope /\ now - data[Timestamp] = MaxSlope + 1
    /\ res.val = data[Price] - 1 /\ res.val > data[MinPrice]

\* C9 as stated: every get_price call succeeds, in every reachable state.
C9_AlwaysSucceeds == res.op = "get_price" => res.status = "Ok"

\* C9 amended: get_price succeeds in every reachable state in which the contract has
\* been initialized with a nonzero slope, after any number of buys; before a
\* successful initialize it aborts on the missing configuration, and under a zero
\* slope it aborts on the division by zero.
C9_GetPrice ==
    /\ (Initialized /\ get_slope(data) # Ok(0)) =>
          /\ get_price(data, now).status = "Ok"
          /\ res.op = "get_price" => res.status = "Ok"
    /\ ~Initialized => get_price(data, now).status = "Uninitialized"
    /\ (Initialized /\ get_slope(data) = Ok(0))
          => get_price(data, now).status = "DivisionByZero"

\* get_price succeeded after a buy had emptied the contract
C9_Witness ==
    /\ res.op = "get_price" /\ res.status = "Ok" /\ Initialized
    /\ bal["test"]["user2"] = Stock /\ bal["usdc"]["user2"] < Funds

\* C10 as stated: every nonce call succeeds, in every reachable state, and returns
\* zero (no nonce is ever stored).
C10_AlwaysSucceeds == res.op = "nonce" => (res.status = "Ok" /\ res.val = 0)

\* C10 amended: nonce succeeds in every reachable state after a successful
\* initialize and returns the admin's stored nonce, zero when never set; before a
\* successful initialize it aborts on the missing admin.
C10_Nonce ==
    /\ Initialized =>
          /\ nonce(data) = Ok(read_nonce(data, data[Admin]))
          /\ nonce(data) = Ok(0)
          /\ res.op = "nonce" => (res.status = "Ok" /\ res.val = 0)
    /\ ~Initialized => nonce(data).status = "Uninitialized"

\* nonce returned zero on an initialized instance after a buy had settled
C10_Witness ==
    /\ res.op = "nonce" /\ res.status = "Ok" /\ res.val = 0 /\ Initialized
    /\ bal["test"]["user2"] = Stock /\ bal["usdc"]["user2"] < Funds

\* C11: a get_price or buy call made before initialize has succeeded fails with
\* Uninitialized and changes no state: the configuration stays absent and every
\* balance and allowance is as before the call.
C11_Uninitialized ==
    [][((Called("get_price") \/ Called("buy")) /\ ~Initialized)
       => /\ res'.status = "Uninitialized"
          /\ data' = data /\ data' = << >>
          /\ bal' = bal /\ allow' = allow]_vars

\* a buy by the funded buyer, who had approved the contract, failed with
\* Uninitialized on the empty instance
C11_Witness ==
    /\ res.op = "buy" /\ res.status = "Uninitialized" /\ res.from = "user2"
    /\ ~Initialized /\ data = << >>
    /\ allow["usdc"]["user2"] = MaxPrice /\ bal["usdc"]["user2"] = Funds

\* C12: get_price is read-only: a call leaves the stored configuration, the nonce
\* registry (both in data), the ledger time and every balance and allowance unchanged,
\* and a call repeated in the state it leaves returns the same outcome.
C12_ReadOnly ==
    [][Called("get_price")
       => /\ data' = data /\ now' = now /\ bal' = bal /\ allow' = allow
          /\ get_price(data', now').status = res'.status
          /\ get_price(data', now').val = res'.val]_vars

\* get_price returned a decayed price on an instance that holds an allowance and has
\* settled a buy
C12_Witness ==
    /\ res.op = "get_price" /\ res.status = "Ok" /\ Initialized
    /\ res.val < data[Price] /\ res.val > 0
    /\ allow["usdc"]["user2"] > 0 /\ bal["test"]["user2"] = Stock

\* the buyer's allowance and balance cover the current price, so the payment token
\* accepts the payment
PaymentCovered(from) ==
    /\ get_price(data, now).status = "Ok"
    /\ get_token_id(data).val \in RegisteredTokens
    /\ get_price(data, now).val >= 0
    /\ get_price(data, now).val <= allow[data[TokenId]][from]
    /\ get_price(data, now).val <= bal[data[TokenId]][from]

\* the contract holds none of the (registered) prize asset
PrizeEmpty ==
    /\ Initialized
    /\ get_item_id(data).val \in RegisteredTokens
    /\ bal[data[ItemId]][get_contract_id] = 0

\* the buy succeeds at the current price and the ledgers change by the payment alone:
\* the prize transfer moves nothing
ChargedForNothing(from) ==
    /\ res'.status = "Ok"
    /\ res'.val = get_price(data, now).val
    /\ bal' = Move(bal, data[TokenId], from, data[Admin], get_price(data, now).val)
    /\ allow' = [allow EXCEPT ![data[TokenId]][from] = @ - get_price(data, now).val]

\* C13 as stated, for the buy that directly follows a successful buy which left the
\* contract no prize: with the buyer's allowance and balance covering the price it
\* succeeds, charges the price in favour of the admin and transfers a prize of zero.
C13_AnyConfiguration ==
    [][(/\ res.op = "buy" /\ res.status = "Ok" /\ PrizeEmpty
        /\ Called("buy") /\ PaymentCovered(res'.from))
       => ChargedForNothing(res'.from)]_vars

\* C13 amended: there is no auction-closed state: whenever the contract holds no
\* prize (as after a successful buy), a buy whose buyer's allowance and balance
\* cover the current price still succeeds, charges the buyer the current price in
\* favour of the admin and transfers a prize of zero, unless the payment asset is
\* also the prize asset and the admin is the contract itself.
C13_NoClosedState ==
    [][(/\ PrizeEmpty /\ Called("buy") /\ PaymentCovered(res'.from)
        /\ (data[TokenId] # data[ItemId] \/ data[Admin] # get_contract_id))
       => ChargedForNothing(res'.from)]_vars

\* a buy at a positive price succeeded after an earlier paid buy had taken the stock
C13_Witness ==
    /\ res.op = "buy" /\ res.status = "Ok" /\ res.val > 0 /\ res.from = "user2"
    /\ data[Admin] = "user1" /\ data[TokenId] = "usdc" /\ data[ItemId] = "test"
    /\ bal["test"]["user2"] = Stock /\ bal["test"][get_contract_id] = 0
    /\ bal["usdc"]["user1"] > res.val

\* the seven configuration keys
ConfigKeys == {Admin, TokenId, ItemId, Price, MinPrice, Timestamp, Slope}

\* start_time is the ledger time at which initialize ran: never later than the ledger
\* time, and equal to it in the state the successful initialize leaves
StartTimeIsInitTime ==
    /\ get_starting_time(data).val <= now
    /\ (res.op = "initialize" /\ res.status = "Ok") => get_starting_time(data).val = now

\* C14 as stated: whenever the configuration exists, minimum_price <= starting_price,
\* decay_rate > 0 and start_time is the ledger time of initialize.
C14_SaneConfiguration ==
    Initialized =>
        /\ get_minimum_price(data) <= get_starting_price(data)
        /\ get_slope(data).val > 0
        /\ StartTimeIsInitTime

\* C14 amended: whenever the configuration exists, all seven fields are stored and
\* start_time equals the ledger time at which initialize was executed;
\* minimum_price <= starting_price and decay_rate > 0 are not enforced, and hold only
\* when the caller passed such values.
C14_StartTime ==
    Initialized =>
        /\ DOMAIN data = ConfigKeys
        /\ StartTimeIsInitTime

\* an auction initialized after the ledger had advanced, seen at a later ledger time
C14_Witness ==
    /\ Initialized /\ data[Timestamp] > 0 /\ now > data[Timestamp]
    /\ data[MinPrice] <= data[Price] /\ data[Slope] > 0

\* C15 as stated: once the price is minimum_price at a time t >= start_time, it is
\* minimum_price at every later time, under every stored configuration.
C15_AnyConfiguration ==
    Initialized =>
        \A t1, t2 \in TimesFromStart :
            (/\ t1 <= t2
             /\ get_price(data, t1) = Ok(get_minimum_price(data))
             /\ get_price(data, t2).status = "Ok")
            => get_price(data, t2) = Ok(get_minimum_price(data))

\* C15 amended: with a slope (decay rate) greater than zero, once the price is
\* minimum_price at a time t >= start_time it is minimum_price at every later time,
\* in every reachable state, whatever calls happened in between.
C15_FloorForever ==
    (Initialized /\ get_slope(data).val > 0) =>
        \A t1, t2 \in TimesFromStart :
            (t1 <= t2 /\ get_price(data, t1) = Ok(get_minimum_price(data)))
            => get_price(data, t2) = Ok(get_minimum_price(data))

\* get_price returned the minimum price, which the decaying price had already
\* reached at an earlier time, after a buy had settled in between
C15_Witness ==
    /\ res.op = "get_price" /\ res.status = "Ok" /\ Initialized
    /\ data[Slope] > 0 /\ data[Price] > data[MinPrice]
    /\ res.val = data[MinPrice]
    /\ \E t \in TimesFromStart : t < now /\ get_price(data, t) = Ok(data[MinPrice])
    /\ bal["test"]["user2"] = Stock

\* C16: once the configuration exists, every call (buy, get_price, nonce, a further
\* initialize, successful or failed) leaves each of the seven configuration fields
\* stored with the value it had.
C16_ConfigurationFrozen ==
    [][Initialized => \A k \in ConfigKeys : Has(data', k) /\ data'[k] = data[k]]_vars

\* a further initialize was refused after the ledger had advanced and a buy had
\* settled under the first configuration
C16_Witness ==
    /\ res.op = "initialize" /\ res.status = "AlreadyInitialized" /\ Initialized
    /\ now > data[Timestamp]
    /\ bal["test"]["user2"] = Stock /\ bal["usdc"]["user2"] < Funds

\* C17: no operation writes a nonce: no Nonce key is ever stored, so every
\* identifier's nonce reads zero (and never decreases) and nonce() returns zero on an
\* initialized contract; the outcome of buy does not depend on a stored nonce.
C17_NoNonceWritten ==
    /\ DOMAIN data \subseteq ConfigKeys
    /\ \A id \in Identifier : ~Has(data, Nonce(id)) /\ read_nonce(data, id) = 0
    /\ Initialized => nonce(data) = Ok(0)
    /\ (res.op = "nonce" /\ res.status = "Ok") => res.val = 0
    /\ \A from, id \in Identifier :
          buy(Set(data, Nonce(id), 1), now, bal, allow, from)
              = buy(data, now, bal, allow, from)

\* a paid buy has settled and the nonces of the buyer and of the admin still read zero
C17_Witness ==
    /\ res.op = "buy" /\ res.status = "Ok" /\ res.val > 0
    /\ read_nonce(data, res.from) = 0
    /\ read_nonce(data, data[Admin]) = 0

\* C18 as stated: under every stored configuration the price compute_price returns at
\* any time t >= start_time, and so every price get_price returned or buy charged, is
\* at least minimum_price and not negative.
C18_AnyConfiguration ==
    /\ Initialized =>
          \A t \in TimesFromStart :
              get_price(data, t).status = "Ok"
                  => /\ get_price(data, t).val >= get_minimum_price(data)
                     /\ get_price(data, t).val >= 0
    /\ (res.op \in {"get_price", "buy"} /\ res.status = "Ok") => res.val >= 0

\* C18 amended: under every configuration with minimum_price >= 0 the price returned
\* by get_price and charged by buy is never negative: the internal subtraction may go
\* negative before clamping, but the result is always >= minimum_price >= 0, at every
\* time t >= start_time.
C18_NonNegative ==
    (Initialized /\ get_minimum_price(data) >= 0) =>
        /\ \A t \in TimesFromStart :
              get_price(data, t).status = "Ok"
                  => /\ get_price(data, t).val >= get_minimum_price(data)
                     /\ get_price(data, t).val >= 0
        /\ (res.op \in {"get_price", "buy"} /\ res.status = "Ok") => res.val >= 0

\* get_price returned a minimum price of zero when the subtraction had gone negative
C18_Witness ==
    /\ res.op = "get_price" /\ res.status = "Ok" /\ Initialized
    /\ data[MinPrice] = 0 /\ data[Slope] > 0
    /\ data[Price] - TruncDiv(now - data[Timestamp], data[Slope]) < 0
    /\ res.val = 0

\* the buyer's allowance is exactly the price quoted at some time t1 <= now, and the
\* buyer's balance covers it
QuotedEarlier(from) ==
    /\ Initialized
    /\ get_token_id(data).val \in RegisteredTokens
    /\ \E t1 \in TimesFromStart :
          t1 <= now /\ get_price(data, t1) = Ok(allow[data[TokenId]][from])
    /\ bal[data[TokenId]][from] >= allow[data[TokenId]][from]

\* the payment leg of the buy is not refused for want of authorization, and a buy
\* that succeeds charges at most the allowance
StillAuthorized(from) ==
    /\ get_price(data, now).status = "Ok"
    /\ get_price(data, now).val <= allow[data[TokenId]][from]
    /\ get_price(data, now).val >= 0
          => transfer_to_admin(data, bal, allow, from, get_price(data, now).val).status
                = "Ok"
    /\ res'.status = "Ok" => res'.val <= allow[data[TokenId]][from]

\* C19 as stated: under every stored configuration, a buy by a buyer whose allowance
\* is the price quoted at an earlier time (and whose balance covers it) is not
\* refused for insufficient authorization and charges at most that allowance.
C19_AnyConfiguration ==
    [][(Called("buy") /\ QuotedEarlier(res'.from)) => StillAuthorized(res'.from)]_vars

\* C19 amended: with a slope (decay rate) greater than zero, a buy at t2 >= t1 by a
\* buyer whose allowance is exactly the price get_price returned at t1 (and whose
\* balance covers it) is not refused for insufficient authorization and charges at
\* most the approved amount.
C19_QuoteStaysSufficient ==
    [][(Called("buy") /\ QuotedEarlier(res'.from) /\ get_slope(data).val > 0)
       => StillAuthorized(res'.from)]_vars

\* a buy succeeded at a positive price below the allowance, which was the price
\* quoted at an earlier time
C19_Witness ==
    /\ res.op = "buy" /\ res.status = "Ok" /\ res.val > 0 /\ res.from = "user2"
    /\ data[TokenId] = "usdc" /\ data[Slope] > 0
    /\ allow["usdc"]["user2"] > 0
    /\ \E t1 \in TimesFromStart :
          t1 < now /\ get_price(data, t1) = Ok(res.val + allow["usdc"]["user2"])

\* total supply of an asset across all identities
RECURSIVE SupplyOver(_, _, _)
SupplyOver(b, tok, ids) ==
    IF ids = {} THEN 0
    ELSE LET id == CHOOSE x \in ids : TRUE
         IN  b[tok][id] + SupplyOver(b, tok, ids \ {id})

Supply(b, tok) == SupplyOver(b, tok, Identifier)

\* the contract's own balance of the payment asset is the same after the step
ContractPaymentUntouched ==
    \A tok \in RegisteredTokens :
        get_token_id(data) = Ok(tok)
            => bal'[tok][get_contract_id] = bal[tok][get_contract_id]

\* C20 as stated: every buy call, under any configuration, leaves the total supply of
\* the payment asset and of the prize asset across all identities unchanged, and
\* leaves the contract's own payment-asset balance unchanged.
C20_AnyConfiguration ==
    [][Called("buy") =>
          /\ \A tok \in RegisteredTokens : Supply(bal', tok) = Supply(bal, tok)
          /\ ContractPaymentUntouched]_vars

\* C20 amended: every buy call leaves the total supply of every asset across all
\* identities unchanged; and when the admin is not the contract itself and the
\* payment asset is not the prize asset, it leaves the contract's own payment-asset
\* balance unchanged (payment goes directly from buyer to admin).
C20_Conservation ==
    [][Called("buy") =>
          /\ \A tok \in RegisteredTokens : Supply(bal', tok) = Supply(bal, tok)
          /\ (/\ read_administrator(data) # Ok(get_contract_id)
              /\ get_token_id(data) # get_item_id(data)) => ContractPaymentUntouched]_vars

\* a buy moved a positive payment from buyer to admin and the prize to the buyer:
\* supplies are intact and the contract holds no payment asset
C20_Witness ==
    /\ res.op = "buy" /\ res.status = "Ok" /\ res.val > 0
    /\ data[Admin] # get_contract_id /\ data[TokenId] = "usdc" /\ data[ItemId] = "test"
    /\ Supply(bal, "usdc") = Funds /\ Supply(bal, "test") = Stock
    /\ bal["usdc"][get_contract_id] = 0
    /\ bal["usdc"][data[Admin]] > 0 /\ bal["test"][res.from] = Stock

====
